---- MODULE Spec2Model ----
(***************************************************************************)
(* babelfish_baby: the per-user embedding standardization and similarity   *)
(* retrieval pipeline (app/ai/predictions.py,                              *)
(* app/ai/embedding_standardization.py, app/vector_db.py) together with    *)
(* the handlers that drive it (app/routers/cries.py).                      *)
(*                                                                         *)
(* Floats are modelled as fixed-point integers with Scale units per 1.0.   *)
(* All handlers and background tasks run on the single asyncio event loop  *)
(* of one uvicorn process; `loop` is the task that holds it.               *)
(***************************************************************************)
EXTENDS Integers, Sequences, FiniteSets, TLC

\* ---------------------------------------------------------------- bounds
MaxCries == 5          \* recordings in a run, all users together
MaxOtherCries == 1     \* recordings of a user other than user 1
MaxPending == 2        \* background tasks scheduled and not yet started
MaxOvertake == 0       \* older scheduled tasks a starting task may overtake
MaxConfirms == 1       \* cries validated without a label at a time
MaxFaults == 1         \* collaborator failures in a run
MaxCalls == 3          \* direct library calls in a run
MaxCallLabels == 1     \* cries labelled between direct library calls
EMBEDDING_DIM == 1     \* vector length (1152 in the program)
Users == {1, 2}

\* ------------------------------------------------------ program constants
Scale == 100
EPSILON == 1
NUM_SIMILAR_CRIES == 3
NUM_CRIES_FOR_PREDICTIONS == 5
RECOMPUTE_EVERY == 5

NULL == "NULL"
Labels == {"hungry"}

\* What the feature extractor returns for the audio file of cry c: the
\* recordings are fixed, one per cry id, with components 1.0, 2.0 or 3.0.
Dims == 1..EMBEDDING_DIM
ExtractorOutputs(c) == {[d \in Dims |-> Scale * (1 + ((c + d) % 3))]}
ExtractorErrors == {"FileNotFoundError", "Embedding generation failed"}

\* ------------------------------------------------------------ arithmetic
Abs(x) == IF x < 0 THEN -x ELSE x

\* float division, rounding toward zero
Div(a, b) == IF a >= 0 THEN a \div b ELSE -((-a) \div b)

\* float square root of a fixed-point square, rounded down
Sqrt(n) == CHOOSE r \in 0..(4 * Scale) : r * r <= n /\ n < (r + 1) * (r + 1)

RECURSIVE SumSeq(_)
SumSeq(s) == IF s = <<>> THEN 0 ELSE Head(s) + SumSeq(Tail(s))

\* the elements of a finite set of integers in ascending order
RECURSIVE SortedSeq(_)
SortedSeq(S) ==
    IF S = {} THEN <<>>
    ELSE LET m == CHOOSE x \in S : \A y \in S : x <= y
         IN  <<m>> \o SortedSeq(S \ {m})

\* json.dumps / json.loads of a list of floats (repr round trip)
JsonDumps(v) == [json |-> v]
JsonLoads(j) == j.json

\* np.mean(embeddings_array, axis=0)
NpMean(vs) ==
    [d \in Dims |-> Div(SumSeq([i \in 1..Len(vs) |-> vs[i][d]]), Len(vs))]

\* faulty variant: the sample standard deviation (ddof = 1)
NpStdSample(vs) ==
    LET m == NpMean(vs)
    IN  [d \in Dims |->
            Sqrt(Div(SumSeq([i \in 1..Len(vs) |->
                        (vs[i][d] - m[d]) * (vs[i][d] - m[d])]),
                     IF Len(vs) > 1 THEN Len(vs) - 1 ELSE Len(vs)))]

\* np.std(embeddings_array, axis=0), ddof = 0
NpStd(vs) ==
    LET m == NpMean(vs)
    IN  [d \in Dims |->
            Sqrt(Div(SumSeq([i \in 1..Len(vs) |->
                        (vs[i][d] - m[d]) * (vs[i][d] - m[d])]), Len(vs)))]

\* standardize_embedding: (embedding - mean) / (std + EPSILON)
standardize_embedding(embedding, mean, std) ==
    [d \in Dims |-> Div((embedding[d] - mean[d]) * Scale, std[d] + EPSILON)]

ZeroMean == [d \in Dims |-> 0]
UnitStd == [d \in Dims |-> Scale]

\* ----------------------------------------------------------------- state
VARIABLES
    cries,      \* cry_instances table: sequence indexed by the autoincrement id
                \* (a row that was deleted stays as a tombstone, deleted = TRUE)
    raw,        \* cry_embeddings_raw table: cry_id -> embedding_json
    stats,      \* user_embedding_stats table: user_id -> row
    index,      \* Chroma collection: cry_id -> [user_id, embedding, has_reason]
    tasks,      \* background predict_cry_reason task of each cry (its locals)
    loop,       \* the task running on the event loop, 0 when it is idle
    faults,     \* number of collaborator failures injected so far
    calls       \* direct calls of the library functions made so far

vars == <<cries, raw, stats, index, tasks, loop, faults, calls>>
stores == <<cries, raw, stats, index>>

CryIds == 1..Len(cries)

\* locals of a predict_cry_reason invocation
NoTask ==
    [pc |-> "pending", validated_count |-> 0,
     embedding |-> <<>>, standardized_embedding |-> <<>>,
     add_failed |-> FALSE, recomputed |-> FALSE,
     rc_todo |-> <<>>, rc_mean |-> <<>>, rc_std |-> <<>>,
     rc_done |-> 0, rc_del_failed |-> {}, rc_add_failed |-> {},
     rc_vec |-> <<>>,
     query |-> <<>>, similar_cries |-> <<>>, historical_data |-> <<>>,
     openai_called |-> FALSE, response |-> <<>>,
     stats_failure |-> NULL, raised |-> NULL, result |-> <<>>]

DoneTask == [NoTask EXCEPT !.pc = "done"]

\* ------------------------------------------------------------ event loop
\* faulty variant: the index calls of the recompute loop are awaited
SuspensionPointsAwaitedIndex == {"rc_delete", "rc_add"}

\* Labels of predict_cry_reason at which the coroutine suspends and lets the
\* event loop run something else.  predict_cry_reason is `async def`, so
\* Starlette awaits it on the loop; its only await is
\* call_openai_for_prediction, which itself never awaits (the OpenAI client
\* is the blocking one): the task never suspends.
SuspensionPoints == {}

CanStep(c, pc) ==
    /\ c \in CryIds
    /\ tasks[c].pc = pc
    /\ \/ loop = c
       \/ loop = 0 /\ pc \in SuspensionPoints

\* a scheduled task may start when the loop is idle
CanStart(c) ==
    /\ loop = 0
    /\ c \in CryIds
    /\ tasks[c].pc = "pending"
    /\ Cardinality({x \in 1..(c - 1) : tasks[x].pc = "pending"}) <= MaxOvertake

\* continue task c with locals l
Continue(c, l) ==
    /\ tasks' = [tasks EXCEPT ![c] = l]
    /\ loop' = IF l.pc \in SuspensionPoints THEN 0 ELSE c

\* ------------------------------------------------------------ vector_db
\* faulty variant: the has_reason flag is set whatever the reason
add_embedding_flag_always_set(idx, cry_id, user_id, embedding, reason) ==
    IF cry_id \in DOMAIN idx THEN idx
    ELSE [i \in DOMAIN idx \cup {cry_id} |->
            IF i = cry_id
            THEN [cry_id |-> cry_id, user_id |-> user_id,
                  has_reason |-> 1,
                  embedding |-> embedding]
            ELSE idx[i]]

\* collection.add of one id: Chroma does not overwrite an id that is already
\* in the collection (it logs "Add of existing embedding ID" and skips it).
add_embedding(idx, cry_id, user_id, embedding, reason) ==
    IF cry_id \in DOMAIN idx THEN idx
    ELSE [i \in DOMAIN idx \cup {cry_id} |->
            IF i = cry_id
            THEN [cry_id |-> cry_id, user_id |-> user_id,
                  has_reason |-> IF reason # NULL THEN 1 ELSE 0,
                  embedding |-> embedding]
            ELSE idx[i]]

\* collection.delete(ids=[...]): deleting an absent id is a no-op
delete_embedding(idx, cry_id) ==
    [i \in DOMAIN idx \ {cry_id} |-> idx[i]]

\* update_embedding_metadata(cry_id, has_reason): sets the flag of an existing
\* entry; no handler and no function of the pipeline calls it
update_embedding_metadata(idx, cry_id, has_reason) ==
    IF cry_id \notin DOMAIN idx THEN idx
    ELSE [idx EXCEPT ![cry_id].has_reason = has_reason]

\* faulty variant: the where clause without the user_id condition
SearchWhereAnyOwner(entry, user_id, filter_validated) ==
    filter_validated => entry.has_reason > 0

\* the `where` clause of search_similar
SearchWhere(entry, user_id, filter_validated) ==
    /\ entry.user_id = user_id
    /\ filter_validated => entry.has_reason > 0

\* Chroma's default distance: squared L2
Distance(a, b) ==
    Div(SumSeq([d \in Dims |-> (a[d] - b[d]) * (a[d] - b[d])]), Scale)

\* The ways to list the n nearest members of cand by ascending distance
\* dist[i]; the order among equal distances is left to the index.
RECURSIVE Nearest(_, _, _)
Nearest(dist, cand, n) ==
    IF n = 0 \/ cand = {} THEN {<<>>}
    ELSE LET best == {i \in cand : \A j \in cand : dist[i] <= dist[j]}
         IN  UNION {{<<i>> \o t : t \in Nearest(dist, cand \ {i}, n - 1)} :
                        i \in best}

\* The result lists collection.query(query_embeddings, n_results=k, where)
\* may return.
QueryResults(idx, user_id, embedding, k, filter_validated) ==
    LET cand == {i \in DOMAIN idx :
                    SearchWhere(idx[i], user_id, filter_validated)}
        dist == [i \in cand |-> Distance(embedding, idx[i].embedding)]
    IN  Nearest(dist, cand, k)

\* search_similar: the formatted hits of one query result h
search_similar(idx, embedding, h) ==
    [a \in 1..Len(h) |->
        [cry_id |-> idx[h[a]].cry_id,
         distance |-> Distance(embedding, idx[h[a]].embedding),
         similarity |-> Scale - Distance(embedding, idx[h[a]].embedding)]]

\* ------------------------------------------------- embedding_standardization
CryExists(c) == c \in CryIds /\ ~cries[c].deleted

\* no row of the user has been deleted (rows go with their user)
UserExists(user_id) ==
    \A c \in CryIds : cries[c].user_id = user_id => ~cries[c].deleted

CriesOf(user_id) == {c \in CryIds : cries[c].user_id = user_id /\ CryExists(c)}

\* get_user_cry_count
get_user_cry_count(user_id) == Cardinality(CriesOf(user_id))

\* should_recompute_stats
should_recompute_stats(user_id) ==
    /\ get_user_cry_count(user_id) > 0
    /\ get_user_cry_count(user_id) % RECOMPUTE_EVERY = 0

\* faulty variant: the query without the `reason IS NOT NULL` filter
ValidatedCountAnyReason(user_id) ==
    Cardinality({c \in CriesOf(user_id) : cries[c].validation_status = TRUE})

\* the validated_count query of predict_cry_reason
ValidatedCount(user_id) ==
    Cardinality({c \in CriesOf(user_id) :
                    /\ cries[c].validation_status = TRUE
                    /\ cries[c].reason # NULL})

Init ==
    /\ cries = <<>>
    /\ raw = <<>>
    /\ stats = <<>>
    /\ index = <<>>
    /\ tasks = <<>>
    /\ loop = 0
    /\ faults = 0
    /\ calls = <<>>

\* ------------------------------------------------------- request handlers
\* POST /api/cries/record: insert the cry and schedule predict_cry_reason
record_cry(u) ==
    /\ loop = 0
    /\ UserExists(u)
    /\ Len(cries) < MaxCries
    /\ u # 1 => get_user_cry_count(u) < MaxOtherCries
    /\ Cardinality({c \in CryIds : tasks[c].pc = "pending"}) < MaxPending
    /\ cries' = Append(cries, [user_id |-> u, reason |-> NULL,
                               reason_source |-> NULL, deleted |-> FALSE,
                               validation_status |-> FALSE,
                               ai_reason |-> NULL, ai_solution |-> NULL])
    /\ tasks' = Append(tasks, NoTask)
    /\ UNCHANGED <<calls, raw, stats, index, loop, faults>>

\* PUT /api/cries/{cry_id}/validate.  request.validation = True confirms
\* (label = NULL here); otherwise the request carries the user's label,
\* which the current schema (models.py) keeps in the `reason` column.
validate_cry(c, label) ==
    /\ loop = 0
    /\ CryExists(c)
    /\ label = NULL /\ cries[c].validation_status = FALSE =>
          Cardinality({x \in CryIds : /\ cries[x].validation_status = TRUE
                                      /\ cries[x].reason = NULL}) < MaxConfirms
    /\ cries' = [cries EXCEPT ![c] =
                    IF label = NULL
                    THEN [@ EXCEPT !.validation_status = TRUE]
                    ELSE [@ EXCEPT !.reason = label,
                                   !.reason_source = "user",
                                   !.validation_status = TRUE]]
    /\ UNCHANGED <<calls, raw, stats, index, tasks, loop, faults>>

\* ------------------------------------------------------ predict_cry_reason
\* a collaborator (extractor, Chroma) raises; at most MaxFaults times per run
Fault == faults < MaxFaults /\ faults' = faults + 1

Return(l, result) == [l EXCEPT !.pc = "return", !.result = <<result>>]

\* faulty variant: an existing record is kept as it is
store_raw_embedding_insert_only(rw, cry_id, embedding) ==
    [i \in DOMAIN rw \cup {cry_id} |->
        IF i \in DOMAIN rw THEN rw[i] ELSE JsonDumps(embedding)]

\* store_raw_embedding: the table after the upsert
store_raw_embedding(rw, cry_id, embedding) ==
    [i \in DOMAIN rw \cup {cry_id} |->
        IF i = cry_id THEN JsonDumps(embedding) ELSE rw[i]]

\* faulty variant: the row is written with the identity on every call
get_or_initialize_user_stats_reset(st, user_id) ==
    [x \in DOMAIN st \cup {user_id} |->
        IF x = user_id
        THEN [mean_json |-> JsonDumps(ZeroMean),
              std_json |-> JsonDumps(UnitStd),
              cry_count |-> 0]
        ELSE st[x]]

\* get_or_initialize_user_stats: the table after the call
get_or_initialize_user_stats(st, user_id) ==
    IF user_id \in DOMAIN st THEN st
    ELSE [x \in DOMAIN st \cup {user_id} |->
            IF x = user_id
            THEN [mean_json |-> JsonDumps(ZeroMean),
                  std_json |-> JsonDumps(UnitStd),
                  cry_count |-> 0]
            ELSE st[x]]

\* get_or_initialize_user_stats: the (mean, std) it returns
StatsOf(st, user_id) ==
    IF user_id \in DOMAIN st
    THEN <<JsonLoads(st[user_id].mean_json), JsonLoads(st[user_id].std_json)>>
    ELSE <<ZeroMean, UnitStd>>

\* the background task starts: cry lookup, validated_count, and
\* generate_embedding(cry.audio_file_path) returns a vector
GenerateOk(c) ==
    /\ CanStart(c)
    /\ CryExists(c)
    /\ \E e \in ExtractorOutputs(c) :
          Continue(c, [tasks[c] EXCEPT
                        !.pc = "process",
                        !.validated_count = ValidatedCount(cries[c].user_id),
                        !.embedding = e])
    /\ UNCHANGED <<calls, cries, raw, stats, index, faults>>

\* faulty variant: the statistics row is initialized before the extraction
GenerateFailsAfterStatsInit(c) ==
    /\ CanStart(c)
    /\ CryExists(c)
    /\ Fault
    /\ \E e \in ExtractorErrors :
          Continue(c, Return([tasks[c] EXCEPT
                    !.validated_count = ValidatedCount(cries[c].user_id)],
                [status |-> "error",
                 message |-> <<"Failed to generate embedding: ", e>>]))
    /\ stats' = get_or_initialize_user_stats(stats, cries[c].user_id)
    /\ UNCHANGED <<calls, cries, raw, index>>

\* the same, but generate_embedding raises
GenerateFails(c) ==
    /\ CanStart(c)
    /\ CryExists(c)
    /\ Fault
    /\ \E e \in ExtractorErrors :
          Continue(c, Return([tasks[c] EXCEPT
                    !.validated_count = ValidatedCount(cries[c].user_id)],
                [status |-> "error",
                 message |-> <<"Failed to generate embedding: ", e>>]))
    /\ UNCHANGED <<calls, cries, raw, stats, index>>

\* process_and_store_embedding, steps 1 to 3: store the raw embedding, get
\* the statistics, standardize
ProcessStores(c) ==
    /\ raw' = store_raw_embedding(raw, c, tasks[c].embedding)
    /\ stats' = get_or_initialize_user_stats(stats, cries[c].user_id)

Standardized(c) ==
    LET ms == StatsOf(stats, cries[c].user_id)
    IN  standardize_embedding(tasks[c].embedding, ms[1], ms[2])

\* process_and_store_embedding with add_embedding succeeding (step 4) and the
\* check whether to recompute (step 5)
ProcessOk(c) ==
    LET u == cries[c].user_id
    IN  /\ CanStep(c, "process")
        /\ ProcessStores(c)
        /\ index' = add_embedding(index, c, u, Standardized(c), cries[c].reason)
        /\ Continue(c, [tasks[c] EXCEPT
                !.standardized_embedding = Standardized(c),
                !.pc = IF should_recompute_stats(u)
                       THEN "recompute" ELSE "gate"])
        /\ UNCHANGED <<calls, cries, faults>>

\* faulty variant: the exception is not caught by the inner try and reaches the
\* outer handler
AfterProcessFailureUncaught(l) ==
    Return(l, [status |-> "error", message |-> <<"add_embedding failed">>])

\* where predict_cry_reason goes on when process_and_store_embedding raised
AfterProcessFailure(l) == [l EXCEPT !.pc = "gate"]

\* process_and_store_embedding with add_embedding raising: it re-raises
ProcessAddFails(c) ==
    /\ CanStep(c, "process")
    /\ Fault
    /\ ProcessStores(c)
    /\ Continue(c, AfterProcessFailure([tasks[c] EXCEPT
            !.standardized_embedding = Standardized(c),
            !.add_failed = TRUE]))
    /\ UNCHANGED <<calls, cries, index>>

\* process_and_store_embedding when the db.commit() that creates the user's
\* statistics row raises: the raw embedding is stored, the row is not, and
\* the exception leaves process_and_store_embedding before add_embedding
ProcessStatsInitFails(c) ==
    /\ CanStep(c, "process")
    /\ cries[c].user_id \notin DOMAIN stats
    /\ Fault
    /\ raw' = store_raw_embedding(raw, c, tasks[c].embedding)
    /\ Continue(c, AfterProcessFailure([tasks[c] EXCEPT
            !.stats_failure = "create"]))
    /\ UNCHANGED <<calls, cries, stats, index>>

\* ----------------------------------------------------- recompute_user_stats
\* faulty variant: the records of every user's cries
RawRecordsOfAnyUser(user_id) == SortedSeq(DOMAIN raw)

\* the raw embedding records of a user's cries, in id order
RawRecordsOf(user_id) == SortedSeq(CriesOf(user_id) \cap DOMAIN raw)

\* the vector recompute_user_stats re-inserts for one record
Restandardized(cry_id, mean, std) ==
    standardize_embedding(JsonLoads(raw[cry_id]), mean, std)

\* recompute_user_stats up to db.commit(): load, compute, persist
RecomputeStart(c) ==
    LET u == cries[c].user_id
        records == RawRecordsOf(u)
        embeddings == [i \in 1..Len(records) |-> JsonLoads(raw[records[i]])]
        mean == NpMean(embeddings)
        std == NpStd(embeddings)
    IN  /\ CanStep(c, "recompute")
        /\ IF CriesOf(u) = {} \/ records = <<>> \/ u \notin DOMAIN stats
           THEN /\ Continue(c, [tasks[c] EXCEPT !.pc = "gate"])
                /\ stats' = stats
           ELSE /\ stats' = [stats EXCEPT ![u] =
                                [mean_json |-> JsonDumps(mean),
                                 std_json |-> JsonDumps(std),
                                 cry_count |-> Cardinality(CriesOf(u))]]
                /\ Continue(c, [tasks[c] EXCEPT
                        !.pc = "rc_delete", !.recomputed = TRUE,
                        !.rc_todo = records, !.rc_done = 0,
                        !.rc_del_failed = {}, !.rc_add_failed = {},
                        !.rc_mean = mean, !.rc_std = std])
        /\ UNCHANGED <<calls, cries, raw, index, faults>>

\* faulty variant: the failed commit is logged and the loop is entered
RecomputeCommitFailsSwallowed(c) ==
    LET u == cries[c].user_id
    IN  /\ CanStep(c, "recompute")
        /\ CriesOf(u) # {} /\ RawRecordsOf(u) # <<>> /\ u \in DOMAIN stats
        /\ Fault
        /\ Continue(c, [tasks[c] EXCEPT
                !.pc = "rc_delete", !.stats_failure = "recompute",
                !.rc_todo = RawRecordsOf(u),
                !.rc_mean = ZeroMean, !.rc_std = UnitStd])
        /\ UNCHANGED <<calls, cries, raw, stats, index>>

\* recompute_user_stats when its db.commit() raises: the row keeps its
\* values and the exception leaves recompute_user_stats and
\* process_and_store_embedding
RecomputeCommitFails(c) ==
    LET u == cries[c].user_id
    IN  /\ CanStep(c, "recompute")
        /\ CriesOf(u) # {} /\ RawRecordsOf(u) # <<>> /\ u \in DOMAIN stats
        /\ Fault
        /\ Continue(c, AfterProcessFailure([tasks[c] EXCEPT
                !.stats_failure = "recompute"]))
        /\ UNCHANGED <<calls, cries, raw, stats, index>>

\* the loop body up to delete_embedding(cry_id)
RecomputeDeleteOk(c) ==
    /\ CanStep(c, "rc_delete")
    /\ CryExists(Head(tasks[c].rc_todo))
    /\ index' = delete_embedding(index, Head(tasks[c].rc_todo))
    /\ Continue(c, [tasks[c] EXCEPT
            !.pc = "rc_add",
            !.rc_vec = Restandardized(Head(tasks[c].rc_todo),
                                      tasks[c].rc_mean, tasks[c].rc_std)])
    /\ UNCHANGED <<calls, cries, raw, stats, faults>>

\* collection.delete raises: delete_embedding logs it and returns
RecomputeDeleteFails(c) ==
    /\ CanStep(c, "rc_delete")
    /\ CryExists(Head(tasks[c].rc_todo))
    /\ Fault
    /\ Continue(c, [tasks[c] EXCEPT
            !.pc = "rc_add",
            !.rc_vec = Restandardized(Head(tasks[c].rc_todo),
                                      tasks[c].rc_mean, tasks[c].rc_std),
            !.rc_del_failed = @ \cup {Head(tasks[c].rc_todo)}])
    /\ UNCHANGED <<calls, cries, raw, stats, index>>

\* locals after one record of the loop has been handled
NextRecord(l) ==
    [l EXCEPT !.rc_todo = Tail(@), !.rc_done = @ + 1, !.rc_vec = <<>>,
              !.pc = IF Len(l.rc_todo) > 1 THEN "rc_delete" ELSE "gate"]

\* faulty variant: the reason of the cry whose predict triggered the run
RecordReasonOfTrigger(c, id) == cries[c].reason

\* cry.reason of the record's cry, as loaded in the loop body
RecordReason(c, id) == cries[id].reason

\* the loop body from add_embedding on
RecomputeAddOk(c) ==
    LET id == Head(tasks[c].rc_todo)
    IN  /\ CanStep(c, "rc_add")
        /\ index' = add_embedding(index, id, cries[c].user_id,
                        tasks[c].rc_vec, RecordReason(c, id))
        /\ Continue(c, NextRecord(tasks[c]))
        /\ UNCHANGED <<calls, cries, raw, stats, faults>>

\* faulty variant: a failed add_embedding ends the loop
AfterAddFailureBreaks(l) ==
    [l EXCEPT !.rc_add_failed = @ \cup {Head(l.rc_todo)}, !.rc_vec = <<>>,
              !.pc = "gate"]

\* locals after add_embedding raised for the record at hand: the except
\* clause logs it and the loop goes on
AfterAddFailure(l) ==
    NextRecord([l EXCEPT !.rc_add_failed = @ \cup {Head(l.rc_todo)}])

\* add_embedding raises
RecomputeAddFails(c) ==
    /\ CanStep(c, "rc_add")
    /\ Fault
    /\ Continue(c, AfterAddFailure(tasks[c]))
    /\ UNCHANGED <<calls, cries, raw, stats, index>>

\* ------------------------------------------- predict_cry_reason, continued
\* faulty variant: the gate lets a single validated labelled cry through
GateOneIsEnough(c) ==
    /\ CanStep(c, "gate")
    /\ Continue(c,
            IF tasks[c].validated_count < 1
            THEN Return(tasks[c],
                    [status |-> "needs_manual_labeling",
                     validated_count |-> tasks[c].validated_count])
            ELSE [tasks[c] EXCEPT !.pc = "search"])
    /\ UNCHANGED <<calls, cries, raw, stats, index, faults>>

\* the eligibility gate
Gate(c) ==
    /\ CanStep(c, "gate")
    /\ Continue(c,
            IF tasks[c].validated_count < NUM_CRIES_FOR_PREDICTIONS
            THEN Return(tasks[c],
                    [status |-> "needs_manual_labeling",
                     validated_count |-> tasks[c].validated_count])
            ELSE [tasks[c] EXCEPT !.pc = "search"])
    /\ UNCHANGED <<calls, cries, raw, stats, index, faults>>

\* the arguments predict_cry_reason passes to search_similar
SearchArgs(c) ==
    [user_id |-> cries[c].user_id, embedding |-> tasks[c].embedding,
     k |-> NUM_SIMILAR_CRIES, filter_validated |-> TRUE]

\* the historical_data loop over the hits
HistoricalData(similar_cries) ==
    SelectSeq(similar_cries,
              LAMBDA s : CryExists(s.cry_id) /\ cries[s.cry_id].reason # NULL)

\* faulty variant: without the check for an empty result
AfterSearchNoEmptyCheck(l, args, similar_cries) ==
    LET q == [l EXCEPT !.query = <<args>>, !.similar_cries = similar_cries,
                       !.historical_data = HistoricalData(similar_cries)]
    IN  IF q.historical_data = <<>>
        THEN Return(q, [status |-> "no_historical_data"])
        ELSE [q EXCEPT !.pc = "openai"]

\* locals after search_similar returned similar_cries
AfterSearch(l, args, similar_cries) ==
    LET q == [l EXCEPT !.query = <<args>>, !.similar_cries = similar_cries,
                       !.historical_data = HistoricalData(similar_cries)]
    IN  IF similar_cries = <<>>
        THEN Return(q, [status |-> "no_similar_cries"])
        ELSE IF q.historical_data = <<>>
        THEN Return(q, [status |-> "no_historical_data"])
        ELSE [q EXCEPT !.pc = "openai"]

\* search_similar and the collection of the historical data
SearchOk(c) ==
    LET a == SearchArgs(c)
    IN  /\ CanStep(c, "search")
        /\ \E h \in QueryResults(index, a.user_id, a.embedding, a.k,
                                  a.filter_validated) :
              Continue(c, AfterSearch(tasks[c], a,
                            search_similar(index, a.embedding, h)))
        /\ UNCHANGED <<calls, cries, raw, stats, index, faults>>

\* collection.query raises: search_similar logs it and returns []
SearchFails(c) ==
    /\ CanStep(c, "search")
    /\ Fault
    /\ Continue(c, AfterSearch(tasks[c], SearchArgs(c), <<>>))
    /\ UNCHANGED <<calls, cries, raw, stats, index>>

\* After a db.commit() of this run has raised, the session may refuse further
\* use until it is rolled back: the first query of the historical_data loop
\* then raises and the outer handler of predict_cry_reason returns error.
HistoryQueryFails(c) ==
    LET a == SearchArgs(c)
    IN  /\ CanStep(c, "search")
        /\ tasks[c].stats_failure # NULL
        /\ \E h \in QueryResults(index, a.user_id, a.embedding, a.k,
                                  a.filter_validated) :
              /\ h # <<>>
              /\ Continue(c, Return([tasks[c] EXCEPT
                        !.query = <<a>>,
                        !.similar_cries = search_similar(index, a.embedding, h)],
                    [status |-> "error",
                     message |-> <<"PendingRollbackError">>]))
        /\ UNCHANGED <<calls, cries, raw, stats, index, faults>>

\* what the generation service may answer: no answer or no JSON, or a JSON
\* object with the keys listed
OpenAIResponses ==
    {[json |-> FALSE, keys |-> {}],
     [json |-> TRUE, keys |-> {"reason", "solution"}],
     [json |-> TRUE, keys |-> {"reason"}],
     [json |-> TRUE, keys |-> {"solution"}],
     [json |-> TRUE, keys |-> {}]}

\* call_openai_for_prediction: <<>> stands for None
call_openai_for_prediction(response) ==
    IF ~response.json THEN <<>>
    ELSE <<[reason |-> IF "reason" \in response.keys
                       THEN "predicted" ELSE "Unknown",
            solution |-> IF "solution" \in response.keys
                         THEN "suggested" ELSE ""]>>

\* faulty variant: the prediction is written as the validated user label
OpenAIPromotesPrediction(c) ==
    /\ CanStep(c, "openai")
    /\ \E response \in OpenAIResponses :
          LET prediction == call_openai_for_prediction(response)
              l == [tasks[c] EXCEPT !.openai_called = TRUE,
                                    !.response = <<response>>]
          IN  IF prediction = <<>>
              THEN /\ Continue(c, Return(l, [status |-> "prediction_failed"]))
                   /\ cries' = cries
              ELSE /\ cries' = [cries EXCEPT
                                  ![c].ai_reason = prediction[1].reason,
                                  ![c].reason = prediction[1].reason,
                                  ![c].reason_source = "ai",
                                  ![c].validation_status = TRUE,
                                  ![c].ai_solution = prediction[1].solution]
                   /\ Continue(c, Return(l,
                        [status |-> "success",
                         reason |-> prediction[1].reason,
                         solution |-> prediction[1].solution,
                         confidence |->
                            IF l.validated_count >= NUM_CRIES_FOR_PREDICTIONS
                            THEN "normal" ELSE "low"]))
    /\ UNCHANGED <<calls, raw, stats, index, faults>>

\* the generation call and the write-back of the prediction
OpenAI(c) ==
    /\ CanStep(c, "openai")
    /\ \E response \in OpenAIResponses :
          LET prediction == call_openai_for_prediction(response)
              l == [tasks[c] EXCEPT !.openai_called = TRUE,
                                    !.response = <<response>>]
          IN  IF prediction = <<>>
              THEN /\ Continue(c, Return(l, [status |-> "prediction_failed"]))
                   /\ cries' = cries
              ELSE /\ cries' = [cries EXCEPT
                                  ![c].ai_reason = prediction[1].reason,
                                  ![c].ai_solution = prediction[1].solution]
                   /\ Continue(c, Return(l,
                        [status |-> "success",
                         reason |-> prediction[1].reason,
                         solution |-> prediction[1].solution,
                         confidence |->
                            IF l.validated_count >= NUM_CRIES_FOR_PREDICTIONS
                            THEN "normal" ELSE "low"]))
    /\ UNCHANGED <<calls, raw, stats, index, faults>>

\* the task returns its result and the event loop is free again
PredictReturn(c) ==
    /\ CanStep(c, "return")
    /\ tasks' = [tasks EXCEPT ![c] = DoneTask]
    /\ loop' = 0
    /\ UNCHANGED <<calls, cries, raw, stats, index, faults>>

\* ---------------------------------------------------------- specification
Next ==
    \/ \E u \in Users : record_cry(u)
    \/ \E c \in 1..MaxCries, label \in Labels \cup {NULL} : validate_cry(c, label)
    \/ \E c \in 1..MaxCries : GenerateOk(c)
    \/ \E c \in 1..MaxCries : GenerateFails(c)
    \/ \E c \in 1..MaxCries : ProcessOk(c)
    \/ \E c \in 1..MaxCries : ProcessAddFails(c)
    \/ \E c \in 1..MaxCries : ProcessStatsInitFails(c)
    \/ \E c \in 1..MaxCries : RecomputeStart(c)
    \/ \E c \in 1..MaxCries : RecomputeCommitFails(c)
    \/ \E c \in 1..MaxCries : RecomputeDeleteOk(c)
    \/ \E c \in 1..MaxCries : RecomputeDeleteFails(c)
    \/ \E c \in 1..MaxCries : RecomputeAddOk(c)
    \/ \E c \in 1..MaxCries : RecomputeAddFails(c)
    \/ \E c \in 1..MaxCries : Gate(c)
    \/ \E c \in 1..MaxCries : SearchOk(c)
    \/ \E c \in 1..MaxCries : SearchFails(c)
    \/ \E c \in 1..MaxCries : HistoryQueryFails(c)
    \/ \E c \in 1..MaxCries : OpenAI(c)
    \/ \E c \in 1..MaxCries : PredictReturn(c)

Spec == Init /\ [][Next]_vars

\* ------------------------------------------------- positions of the tasks
Owner(c) == cries[c].user_id
Active(c) == tasks[c].pc \notin {"pending", "done"}
Returning(c) == tasks[c].pc = "return"
Result(c) == tasks[c].result[1]
InRecompute(c) == tasks[c].pc \in {"recompute", "rc_delete", "rc_add"}

\* ------------------------------------------------------- deletion of a user
\* The rows of a user are deleted by another process (models.py cascades the
\* deletion of a User to its cries, their raw embeddings and its statistics
\* row) while a recompute for that user is running.  Chroma is not touched.
delete_user(u) ==
    /\ UserExists(u)
    /\ \E c \in CryIds : cries[c].user_id = u /\ InRecompute(c)
    /\ cries' = [c \in CryIds |->
                   IF cries[c].user_id = u
                   THEN [cries[c] EXCEPT !.deleted = TRUE] ELSE cries[c]]
    /\ raw' = [i \in {j \in DOMAIN raw : cries[j].user_id # u} |-> raw[i]]
    /\ stats' = [x \in DOMAIN stats \ {u} |-> stats[x]]
    /\ UNCHANGED <<calls, index, tasks, loop, faults>>

\* predict_cry_reason for a cry that is gone: `if not cry: return None`
CryNotFound(c) ==
    /\ CanStart(c)
    /\ ~CryExists(c)
    /\ Continue(c, Return(tasks[c], [status |-> NULL]))
    /\ UNCHANGED <<calls, cries, raw, stats, index, faults>>

\* the loop body of recompute_user_stats when the cry of the record is gone:
\* `if not cry: continue`
RecomputeSkipMissing(c) ==
    /\ CanStep(c, "rc_delete")
    /\ ~CryExists(Head(tasks[c].rc_todo))
    /\ Continue(c, NextRecord(tasks[c]))
    /\ UNCHANGED <<calls, cries, raw, stats, index, faults>>

\* the same when the session expired the loaded records at db.commit()
\* (expire_on_commit, the sessionmaker default): `record.cry_id` reloads the
\* row, which is gone, and raises; the exception leaves recompute_user_stats
\* and process_and_store_embedding
RecomputeRecordGone(c) ==
    /\ CanStep(c, "rc_delete")
    /\ ~CryExists(Head(tasks[c].rc_todo))
    /\ Continue(c, AfterProcessFailure([tasks[c] EXCEPT
            !.raised = "ObjectDeletedError"]))
    /\ UNCHANGED <<calls, cries, raw, stats, index, faults>>

NextDeletion ==
    \/ Next
    \/ \E u \in Users : delete_user(u)
    \/ \E c \in 1..MaxCries : CryNotFound(c)
    \/ \E c \in 1..MaxCries : RecomputeSkipMissing(c)
    \/ \E c \in 1..MaxCries : RecomputeRecordGone(c)

SpecDeletion == Init /\ [][NextDeletion]_vars

\* --------------------------------------------------------- library calls
\* The functions of embedding_standardization.py called directly, one after
\* the other, on a database that holds two cries of user 1 and one of user 2.
InitCalls ==
    /\ cries = [c \in 1..3 |->
                  [user_id |-> IF c = 3 THEN 2 ELSE 1, reason |-> NULL,
                   reason_source |-> NULL, deleted |-> FALSE,
                   validation_status |-> FALSE,
                   ai_reason |-> NULL, ai_solution |-> NULL]]
    /\ tasks = [c \in 1..3 |-> DoneTask]
    /\ raw = <<>>
    /\ stats = <<>>
    /\ index = <<>>
    /\ loop = 0
    /\ faults = 0
    /\ calls = <<>>

\* vectors of the length the extractor produces
ValidVectors == [Dims -> {Scale, 3 * Scale}]

\* the same and a vector that is one component too long
CallVectors == ValidVectors \cup {[d \in 1..(EMBEDDING_DIM + 1) |-> Scale]}

\* store_raw_embedding(db, cry_id, embedding); raised = NULL: it returned
StoreRawCall(cry_id, embedding) ==
    /\ Len(calls) < MaxCalls
    /\ cry_id \in CryIds
    /\ raw' = store_raw_embedding(raw, cry_id, embedding)
    /\ calls' = Append(calls, [fn |-> "store_raw_embedding",
                               cry_id |-> cry_id, embedding |-> embedding,
                               raised |-> NULL])
    /\ UNCHANGED <<cries, stats, index, tasks, loop, faults>>

\* get_or_initialize_user_stats(db, user_id)
GetStatsCall(user_id) ==
    /\ Len(calls) < MaxCalls
    /\ stats' = get_or_initialize_user_stats(stats, user_id)
    /\ calls' = Append(calls, [fn |-> "get_or_initialize_user_stats",
                               user_id |-> user_id,
                               returned |-> StatsOf(stats, user_id),
                               raised |-> NULL])
    /\ UNCHANGED <<cries, raw, index, tasks, loop, faults>>

\* the loop of recompute_user_stats over the records, every call succeeding
RECURSIVE Reindexed(_, _, _, _, _)
Reindexed(idx, records, user_id, mean, std) ==
    IF records = <<>> THEN idx
    ELSE LET id == Head(records)
         IN  Reindexed(add_embedding(delete_embedding(idx, id), id, user_id,
                            Restandardized(id, mean, std), cries[id].reason),
                       Tail(records), user_id, mean, std)

\* recompute_user_stats(db, user_id), every collaborator succeeding
RecomputeCall(user_id) ==
    LET records == RawRecordsOf(user_id)
        embeddings == [i \in 1..Len(records) |-> JsonLoads(raw[records[i]])]
        mean == NpMean(embeddings)
        std == NpStd(embeddings)
        call == [fn |-> "recompute_user_stats", user_id |-> user_id,
                 raw_embeddings |-> Len(records), raised |-> NULL]
    IN  /\ Len(calls) < MaxCalls
        /\ calls' = Append(calls, call)
        /\ IF CriesOf(user_id) = {} \/ records = <<>>
                \/ user_id \notin DOMAIN stats
           THEN UNCHANGED <<stats, index>>
           ELSE /\ stats' = [stats EXCEPT ![user_id] =
                                [mean_json |-> JsonDumps(mean),
                                 std_json |-> JsonDumps(std),
                                 cry_count |->
                                    Cardinality(CriesOf(user_id))]]
                /\ index' = Reindexed(index, records, user_id, mean, std)
        /\ UNCHANGED <<cries, raw, tasks, loop, faults>>

NextStoreRaw ==
    \E cry_id \in 1..3, embedding \in CallVectors :
        StoreRawCall(cry_id, embedding)

SpecStoreRaw == InitCalls /\ [][NextStoreRaw]_vars

NextRecompute ==
    \/ \E cry_id \in 1..3, embedding \in ValidVectors :
          StoreRawCall(cry_id, embedding)
    \/ \E user_id \in Users : GetStatsCall(user_id)
    \/ \E user_id \in Users : RecomputeCall(user_id)

SpecRecompute == InitCalls /\ [][NextRecompute]_vars

\* The whole of process_and_store_embedding and of recompute_user_stats called
\* directly, between validations, on a database that holds RECOMPUTE_EVERY
\* cries of user 1 and MaxOtherCries cries of user 2.
InitIndex ==
    /\ cries = [c \in 1..(RECOMPUTE_EVERY + MaxOtherCries) |->
                  [user_id |-> IF c <= RECOMPUTE_EVERY THEN 1 ELSE 2,
                   reason |-> NULL,
                   reason_source |-> NULL, deleted |-> FALSE,
                   validation_status |-> FALSE,
                   ai_reason |-> NULL, ai_solution |-> NULL]]
    /\ tasks = [c \in 1..(RECOMPUTE_EVERY + MaxOtherCries) |-> DoneTask]
    /\ raw = <<>>
    /\ stats = <<>>
    /\ index = <<>>
    /\ loop = 0
    /\ faults = 0
    /\ calls = <<>>

\* the loop of recompute_user_stats over the records of the table rw
RECURSIVE ReindexedFrom(_, _, _, _, _, _)
ReindexedFrom(rw, idx, records, user_id, mean, std) ==
    IF records = <<>> THEN idx
    ELSE LET id == Head(records)
             vec == standardize_embedding(JsonLoads(rw[id]), mean, std)
         IN  ReindexedFrom(rw,
                 add_embedding(delete_embedding(idx, id), id, user_id,
                               vec, cries[id].reason),
                 Tail(records), user_id, mean, std)

\* process_and_store_embedding(db, cry_id, user_id, raw_embedding, reason)
\* as predict_cry_reason calls it for a cry of user_id, every collaborator
\* succeeding
ProcessCall(cry_id, embedding) ==
    LET user_id == cries[cry_id].user_id
        rw == store_raw_embedding(raw, cry_id, embedding)
        st == get_or_initialize_user_stats(stats, user_id)
        ms == StatsOf(stats, user_id)
        vec == standardize_embedding(embedding, ms[1], ms[2])
        idx == add_embedding(index, cry_id, user_id, vec, cries[cry_id].reason)
        records == SortedSeq(CriesOf(user_id) \cap DOMAIN rw)
        embeddings == [i \in 1..Len(records) |-> JsonLoads(rw[records[i]])]
        mean == NpMean(embeddings)
        std == NpStd(embeddings)
    IN  /\ Len(calls) < MaxCalls
        /\ cry_id \in CryIds
        /\ raw' = rw
        /\ IF should_recompute_stats(user_id)
           THEN /\ stats' = [st EXCEPT ![user_id] =
                                [mean_json |-> JsonDumps(mean),
                                 std_json |-> JsonDumps(std),
                                 cry_count |->
                                    Cardinality(CriesOf(user_id))]]
                /\ index' = ReindexedFrom(rw, idx, records, user_id, mean, std)
           ELSE /\ stats' = st
                /\ index' = idx
        /\ calls' = Append(calls, [fn |-> "process_and_store_embedding",
                                   cry_id |-> cry_id, user_id |-> user_id,
                                   embedding |-> embedding,
                                   standardized_embedding |-> vec,
                                   recomputed |->
                                      should_recompute_stats(user_id),
                                   raised |-> NULL])
        /\ UNCHANGED <<cries, tasks, loop, faults>>

\* the user labels a cry: validate_cry with a label
LabelCall(c) ==
    /\ Cardinality({x \in CryIds : cries[x].reason # NULL}) < MaxCallLabels
    /\ \E label \in Labels : validate_cry(c, label)

NextIndex ==
    \/ \E cry_id \in 1..(RECOMPUTE_EVERY + MaxOtherCries),
          embedding \in ValidVectors : ProcessCall(cry_id, embedding)
    \/ \E user_id \in Users : RecomputeCall(user_id)
    \/ \E c \in 1..(RECOMPUTE_EVERY + MaxOtherCries) : LabelCall(c)

SpecIndex == InitIndex /\ [][NextIndex]_vars

\* ------------------------------------------------------------- properties
\* between the first delete_embedding and the last add_embedding of a run
MidRecompute(c) ==
    \/ tasks[c].pc = "rc_add"
    \/ tasks[c].pc = "rc_delete" /\ tasks[c].rc_done > 0
RawCount(u) == Cardinality(CriesOf(u) \cap DOMAIN raw)
\* query vectors: the two recordings that lie farthest apart
QueryVectors == ExtractorOutputs(1) \cup ExtractorOutputs(2)

\* C1: whatever the index holds, a search for user u, with or without the
\* label filter, returns only entries whose stored owner is u; the same
\* holds of the hits of every query predict_cry_reason has made.
C1_Isolation ==
    /\ \A u \in Users, q \in QueryVectors, f \in BOOLEAN :
          \A h \in QueryResults(index, u, q, NUM_SIMILAR_CRIES, f) :
             \A a \in 1..Len(h) :
                index[search_similar(index, q, h)[a].cry_id].user_id = u
    /\ \A c \in CryIds :
          \A a \in 1..Len(tasks[c].similar_cries) :
             index[tasks[c].similar_cries[a].cry_id].user_id = Owner(c)

\* C1 witness: the index holds labelled entries of two users and a filtered
\* search for user 1 returns hits.
C1_Witness ==
    /\ \E i \in DOMAIN index : index[i].user_id = 2 /\ index[i].has_reason = 1
    /\ \E q \in QueryVectors :
          \E h \in QueryResults(index, 1, q, NUM_SIMILAR_CRIES, TRUE) :
             Len(h) > 0

\* C2 (as claimed): when a recompute run that persisted statistics has
\* finished, every index entry of that user holds its raw vector
\* standardized with the mean/std of that run.
C2_NoStaleAfterRecompute ==
    \A c \in CryIds :
       tasks[c].pc = "gate" /\ tasks[c].recomputed =>
          /\ StatsOf(stats, Owner(c)) = <<tasks[c].rc_mean, tasks[c].rc_std>>
          /\ \A i \in DOMAIN index :
                index[i].user_id = Owner(c) =>
                   index[i].embedding =
                      Restandardized(i, tasks[c].rc_mean, tasks[c].rc_std)

\* C3 (as claimed): whenever no recompute is in progress, every index entry
\* equals its item's current raw vector standardized with the current
\* statistics of its owner.
C3_IndexReflectsCurrentStats ==
    (\A c \in CryIds : ~InRecompute(c)) =>
       \A i \in DOMAIN index :
          /\ i \in DOMAIN raw
          /\ index[i].embedding =
                standardize_embedding(JsonLoads(raw[i]),
                    StatsOf(stats, index[i].user_id)[1],
                    StatsOf(stats, index[i].user_id)[2])
\* C4: predict and recompute of one user never overlap: at most one
\* predict_cry_reason task is under way at a time, and no task is about to
\* issue its KNN query while a recompute of the same user is between its
\* first delete_embedding and its last add_embedding.
C4_MutualExclusion ==
    /\ \A c, x \in CryIds : Active(c) /\ Active(x) => c = x
    /\ \A c, x \in CryIds :
          tasks[c].pc = "search" /\ Owner(x) = Owner(c) => ~MidRecompute(x)

\* C4 witness: a task that ran a recompute is about to query while another
\* task of the same user is scheduled.
C4_Witness ==
    \E c, x \in CryIds :
       /\ c # x /\ Owner(c) = Owner(x)
       /\ tasks[c].pc = "search" /\ tasks[c].recomputed
       /\ tasks[x].pc = "pending"

\* C5 (as claimed): a recompute run starts only when the user's number of
\* cries with a raw embedding is a positive multiple of 5, and a run starts
\* each time a newly stored raw embedding brings that number to one.
C5_RecomputeExactlyAtMultiples ==
    [][\A c \in CryIds :
          /\ tasks[c].pc = "recompute" /\ tasks'[c].pc # "recompute" =>
                /\ RawCount(Owner(c)) > 0
                /\ RawCount(Owner(c)) % RECOMPUTE_EVERY = 0
          /\ c \notin DOMAIN raw /\ c \in DOMAIN raw'
                /\ RawCount(Owner(c))' % RECOMPUTE_EVERY = 0 =>
                tasks'[c].pc = "recompute"]_vars

\* L: the owner's cries that are validated and carry a label
LabelledValidated(u) ==
    Cardinality({x \in CriesOf(u) :
                    cries[x].validation_status /\ cries[x].reason # NULL})

\* C6: a predict for an owner with L < 5 whose feature extraction succeeded
\* makes no KNN query and no generation call and returns
\* needs_manual_labeling with validated_count = L.
C6_InsufficientLabels ==
    \A c \in CryIds :
       /\ Active(c)
       /\ tasks[c].embedding # <<>>
       /\ LabelledValidated(Owner(c)) < NUM_CRIES_FOR_PREDICTIONS
       => /\ tasks[c].pc \notin {"search", "openai"}
          /\ tasks[c].query = <<>>
          /\ ~tasks[c].openai_called
          /\ Returning(c) =>
                /\ Result(c).status = "needs_manual_labeling"
                /\ Result(c).validated_count = LabelledValidated(Owner(c))

\* C6 witness (scenario A): the owner has 4 validated labelled cries and the
\* predict of a further cry returns needs_manual_labeling.
C6_Witness ==
    \E c \in CryIds :
       /\ Returning(c)
       /\ tasks[c].embedding # <<>>
       /\ LabelledValidated(Owner(c)) = 4
       /\ cries[c].reason = NULL
       /\ Result(c).status = "needs_manual_labeling"
       /\ Result(c).validated_count = 4

\* C7: a predict whose feature extraction fails returns status error with
\* the extractor's message and changes no store: no raw embedding, no
\* statistics row, no index entry, no recompute, no prediction on the cry.
C7_ExtractionFailureIsFatal ==
    [][\A c \in CryIds :
          /\ tasks[c].pc = "pending" /\ tasks'[c].pc # "pending"
                /\ tasks'[c].embedding = <<>> =>
                /\ stores' = stores
                /\ tasks'[c].pc = "return"
                /\ tasks'[c].result[1].status = "error"
                /\ tasks'[c].result[1].message \in
                      {<<"Failed to generate embedding: ", e>> :
                          e \in ExtractorErrors}
          /\ Returning(c) /\ tasks[c].embedding = <<>> =>
                /\ stores' = stores
                /\ tasks'[c].pc \in {"return", "done"}]_vars

\* C7 witness: a predict is returning the extraction error.
C7_Witness ==
    \E c \in CryIds :
       /\ Returning(c)
       /\ tasks[c].embedding = <<>>
       /\ Result(c).status = "error"
       /\ c \notin DOMAIN raw /\ c \notin DOMAIN index

\* C8: when the index write of the new cry fails, predict does not return
\* the failure: it goes on to the eligibility gate and, for an eligible
\* owner, issues the KNN query.
C8_IndexWriteBestEffort ==
    \A c \in CryIds :
       tasks[c].add_failed =>
          /\ tasks[c].pc \in {"gate", "search", "openai", "return"}
          /\ Returning(c) =>
                /\ Result(c).status # "error"
                /\ LabelledValidated(Owner(c)) >= NUM_CRIES_FOR_PREDICTIONS =>
                      /\ tasks[c].query # <<>>
                      /\ tasks[c].query[1].user_id = Owner(c)
                /\ LabelledValidated(Owner(c)) < NUM_CRIES_FOR_PREDICTIONS =>
                      Result(c).status = "needs_manual_labeling"

\* C8 witness: the index write failed and the task returns after having
\* queried.
C8_Witness ==
    \E c \in CryIds :
       /\ tasks[c].add_failed
       /\ Returning(c)
       /\ tasks[c].query # <<>>
       /\ c \notin DOMAIN index

\* C9 (as claimed): the vector passed to the KNN query is the cry's raw
\* vector standardized with the owner's current statistics, with k = 3 and
\* the label filter on; it is not the raw vector once the statistics differ
\* from the identity.
C9_QueryUsesStandardizedVector ==
    \A c \in CryIds :
       tasks[c].query # <<>> =>
          /\ tasks[c].query[1].k = 3
          /\ tasks[c].query[1].filter_validated
          /\ StatsOf(stats, Owner(c)) # <<ZeroMean, UnitStd>> =>
                tasks[c].query[1].embedding =
                   standardize_embedding(tasks[c].embedding,
                        StatsOf(stats, Owner(c))[1],
                        StatsOf(stats, Owner(c))[2])

\* the statuses of the specification's state machine
ClaimedStatuses ==
    {"error", "needs_manual_labeling", "no_similar_items",
     "no_historical_data", "prediction_failed", "success"}

\* the statuses predict_cry_reason returns
ReturnedStatuses ==
    {"error", "needs_manual_labeling", "no_similar_cries",
     "no_historical_data", "prediction_failed", "success"}

\* a task ends only by returning one result, with a status among statuses,
\* and with status onEmpty when its KNN query returned nothing
EndsWithStatus(statuses, onEmpty) ==
    \A c \in CryIds :
       tasks[c].pc # "done" /\ tasks'[c].pc = "done" =>
          /\ Returning(c)
          /\ Len(tasks[c].result) = 1
          /\ Result(c).status \in statuses
          /\ tasks[c].query # <<>> /\ tasks[c].similar_cries = <<>> =>
                Result(c).status = onEmpty

\* C10 (as claimed): every predict ends with exactly one status among
\* error, needs_manual_labeling, no_similar_items, no_historical_data,
\* prediction_failed, success; an empty KNN result gives no_similar_items.
C10_Original == [][EndsWithStatus(ClaimedStatuses, "no_similar_items")]_vars

\* C10 (amended): every predict of an existing cry ends with exactly one
\* status among error, needs_manual_labeling, no_similar_cries,
\* no_historical_data, prediction_failed, success; an empty KNN result gives
\* no_similar_cries.
C10_TerminalStatus == [][EndsWithStatus(ReturnedStatuses, "no_similar_cries")]_vars

\* C10 witness: a predict whose KNN query returned nothing is returning.
C10_Witness ==
    \E c \in CryIds :
       /\ Returning(c)
       /\ tasks[c].query # <<>>
       /\ tasks[c].similar_cries = <<>>
       /\ Result(c).status = "no_similar_cries"
\* C11 (as claimed): when the generation service's answer is malformed or
\* lacks "reason" or "solution", predict_cry_reason returns prediction_failed
\* and writes no prediction on the cry; success is returned only when both
\* keys were in the answer.
C11_MissingFieldFails ==
    \A c \in CryIds :
       Returning(c) /\ tasks[c].response # <<>> =>
          LET complete == /\ tasks[c].response[1].json
                          /\ {"reason", "solution"} \subseteq
                                tasks[c].response[1].keys
          IN  /\ Result(c).status = "success" => complete
              /\ ~complete =>
                    /\ Result(c).status = "prediction_failed"
                    /\ cries[c].ai_reason = NULL
                    /\ cries[c].ai_solution = NULL
\* C12: a step of predict_cry_reason never changes a cry's user label
\* (reason), reason_source or validation_status, hence no user's number of
\* validated labelled cries; the only change it makes to the cries is the
\* ai_reason / ai_solution of its own cry, when it returns success.
C12_PredictWritesOnlyAIFields ==
    [][loop # 0 \/ loop' # 0 =>
         /\ Len(cries') = Len(cries)
         /\ \A c \in CryIds :
               /\ cries'[c].user_id = cries[c].user_id
               /\ cries'[c].reason = cries[c].reason
               /\ cries'[c].reason_source = cries[c].reason_source
               /\ cries'[c].validation_status = cries[c].validation_status
         /\ \A u \in Users : LabelledValidated(u)' = LabelledValidated(u)
         /\ cries' # cries =>
               \E c \in CryIds :
                  /\ loop = c
                  /\ tasks'[c].pc = "return"
                  /\ tasks'[c].result[1].status = "success"
                  /\ \A x \in CryIds \ {c} : cries'[x] = cries[x]]_vars

\* C12 witness: a predict returns success, its prediction is on the cry and
\* the cry still carries the user's label.
C12_Witness ==
    \E c \in CryIds :
       /\ Returning(c)
       /\ Result(c).status = "success"
       /\ cries[c].ai_reason = "predicted"
       /\ cries[c].reason \in Labels
       /\ cries[c].reason_source = "user"
\* C13 (as claimed): predict_cry_reason evaluates the recomputation trigger
\* only once its run has reached status success, and the recompute does not
\* hold up the result: no recompute is under way before the run has its
\* result, and a run that ends in another status has started no recompute.
C13_TriggerAfterSuccess ==
    \A c \in CryIds :
       /\ InRecompute(c) =>
             /\ tasks[c].result # <<>>
             /\ Result(c).status = "success"
       /\ Returning(c) /\ Result(c).status # "success" => ~tasks[c].recomputed
\* C14: once the commit of the recomputed statistics has failed in a run,
\* that run is over: the statistics row and the index stay as they were and
\* the task is not in the delete/add loop.
C14_StatsPersistFailureAborts ==
    [][\A c \in CryIds :
          tasks'[c].stats_failure = "recompute" =>
             /\ index' = index
             /\ stats' = stats
             /\ ~InRecompute(c)']_vars

\* C14 witness: the commit failed, the task is at the eligibility gate and
\* the owner's entries are still the ones standardized before the run.
C14_Witness ==
    \E c \in CryIds :
       /\ tasks[c].stats_failure = "recompute"
       /\ tasks[c].pc = "gate"
       /\ StatsOf(stats, Owner(c)) = <<ZeroMean, UnitStd>>
       /\ \E i \in DOMAIN index :
             /\ index[i].user_id = Owner(c)
             /\ index[i].embedding =
                   standardize_embedding(JsonLoads(raw[i]), ZeroMean, UnitStd)

\* C15 (as claimed): a failure to persist statistics, at the creation of the
\* row or in a recompute started by the run, ends the run with a failure
\* status; the run does not go on to the eligibility gate and the search.
C15_RequiredFailureSurfaced ==
    \A c \in CryIds :
       tasks[c].stats_failure # NULL =>
          /\ tasks[c].pc \notin {"search", "openai"}
          /\ Returning(c) => Result(c).status = "error"
\* the statistics row get_or_initialize_user_stats creates
IdentityRow ==
    [mean_json |-> JsonDumps(ZeroMean), std_json |-> JsonDumps(UnitStd),
     cry_count |-> 0]

\* C17: a user's statistics row appears only in a process_and_store_embedding
\* step of that user, as the identity (mean 0, std 1, count 0), and that call
\* standardizes with the identity; a call that finds the row standardizes
\* with the persisted values and leaves the row alone; a row never vanishes
\* and changes only when recompute_user_stats of that user persists.
C17_StatsLifecycle ==
    [][\A u \in Users :
          /\ u \in DOMAIN stats => u \in DOMAIN stats'
          /\ u \notin DOMAIN stats /\ u \in DOMAIN stats' =>
                /\ stats'[u] = IdentityRow
                /\ \E c \in CryIds :
                      /\ Owner(c) = u
                      /\ tasks[c].pc = "process"
                      /\ tasks'[c].standardized_embedding =
                            standardize_embedding(tasks[c].embedding,
                                                  ZeroMean, UnitStd)
          /\ u \in DOMAIN stats /\ stats'[u] # stats[u] =>
                \E c \in CryIds :
                   /\ Owner(c) = u
                   /\ tasks[c].pc = "recompute"
                   /\ tasks'[c].pc = "rc_delete"
          /\ \A c \in CryIds :
                /\ Owner(c) = u /\ u \in DOMAIN stats
                /\ tasks[c].pc = "process" /\ tasks'[c].pc # "process"
                => /\ stats'[u] = stats[u]
                   /\ tasks'[c].standardized_embedding =
                         standardize_embedding(tasks[c].embedding,
                             JsonLoads(stats[u].mean_json),
                             JsonLoads(stats[u].std_json))]_vars

\* C17 witness: a call found recomputed statistics and standardized the new
\* cry with them.
C17_Witness ==
    \E c \in CryIds :
       /\ tasks[c].pc \in {"recompute", "gate"}
       /\ ~tasks[c].recomputed
       /\ tasks[c].standardized_embedding # <<>>
       /\ StatsOf(stats, Owner(c)) # <<ZeroMean, UnitStd>>
       /\ stats[Owner(c)].cry_count > 0
       /\ tasks[c].standardized_embedding =
             standardize_embedding(tasks[c].embedding,
                  StatsOf(stats, Owner(c))[1], StatsOf(stats, Owner(c))[2])
\* the positions in calls of the store_raw_embedding calls for cry id
StoreCallsOf(id) ==
    {i \in 1..Len(calls) :
        calls[i].fn = "store_raw_embedding" /\ calls[i].cry_id = id}

\* C18: after any sequence of store_raw_embedding calls the table holds a
\* record exactly for the cry ids that were stored, one per id, and its
\* vector is the one of the latest call for that id.
C18_StoreRawConverges ==
    \A id \in CryIds :
       IF StoreCallsOf(id) = {} THEN id \notin DOMAIN raw
       ELSE /\ id \in DOMAIN raw
            /\ \E i \in StoreCallsOf(id) :
                  /\ \A j \in StoreCallsOf(id) : j <= i
                  /\ JsonLoads(raw[id]) = calls[i].embedding

\* C18 witness: a cry was stored twice with different vectors, the record
\* holds the second one, and another cry has a record too.
C18_Witness ==
    \E id \in DOMAIN raw :
       /\ \E i, j \in StoreCallsOf(id) :
             /\ i < j /\ j = Len(calls)
             /\ calls[i].embedding # calls[j].embedding
             /\ JsonLoads(raw[id]) = calls[j].embedding
       /\ DOMAIN raw # {id}

\* C19 (as claimed): store_raw_embedding raises a validation error for a
\* vector whose length is not EMBEDDING_DIM and stores nothing, so every
\* stored vector has length EMBEDDING_DIM.
C19_StoreRawValidatesLength ==
    /\ \A id \in DOMAIN raw : Len(JsonLoads(raw[id])) = EMBEDDING_DIM
    /\ \A i \in 1..Len(calls) :
          calls[i].fn = "store_raw_embedding"
             /\ Len(calls[i].embedding) # EMBEDDING_DIM =>
             calls[i].raised = "ValidationError"

\* C20 (as claimed): recompute_user_stats for a user without raw embeddings
\* raises an empty-input error and leaves the statistics and the index as
\* they were.
C20_RecomputeEmptyRaises ==
    [][Len(calls') = Len(calls) + 1
          /\ calls'[Len(calls')].fn = "recompute_user_stats"
          /\ calls'[Len(calls')].raw_embeddings = 0 =>
          /\ calls'[Len(calls')].raised = "EmptyInputError"
          /\ stats' = stats
          /\ index' = index]_vars
\* C16 (as claimed): once the user of a running recompute has been deleted,
\* no step of that run writes a statistics row or an index entry of the
\* user, and the run does not end by raising.
C16_DeletedUserNotWritten ==
    [][\A c \in CryIds :
          InRecompute(c) /\ ~UserExists(Owner(c)) /\ tasks'[c] # tasks[c] =>
             /\ Owner(c) \notin DOMAIN stats'
             /\ \A i \in DOMAIN index' :
                   index'[i].user_id = Owner(c) =>
                      i \in DOMAIN index /\ index'[i] = index[i]
             /\ tasks'[c].raised = NULL]_vars

\* the hits are listed by descending similarity, equal similarities by
\* ascending cry id
OrderedHits(hits) ==
    \A a \in 1..Len(hits), b \in 1..Len(hits) :
       a < b =>
          \/ hits[a].similarity > hits[b].similarity
          \/ /\ hits[a].similarity = hits[b].similarity
             /\ hits[a].cry_id < hits[b].cry_id

\* C21 (as claimed): the hits search_similar returned to a predict are
\* ordered by descending similarity with equal similarities in ascending
\* cry id, and a predict that reaches the generation call passes as
\* historical data exactly the at most 3 hits whose cry carries a label, in
\* the order of the hits.
C21_HitsOrdered ==
    \A c \in CryIds :
       tasks[c].query # <<>> =>
          /\ OrderedHits(tasks[c].similar_cries)
          /\ tasks[c].pc = "openai" \/ tasks[c].openai_called =>
                /\ Len(tasks[c].similar_cries) <= NUM_SIMILAR_CRIES
                /\ tasks[c].historical_data =
                      SelectSeq(tasks[c].similar_cries,
                                LAMBDA s : cries[s.cry_id].reason # NULL)

\* C22: for a user without any cry that is both validated and labelled, a
\* search with filter_validated=True returns the empty list, whatever the
\* index holds.
C22_NoLabelNoHits ==
    \A u \in Users, q \in QueryVectors :
       LabelledValidated(u) = 0 =>
          QueryResults(index, u, q, NUM_SIMILAR_CRIES, TRUE) = {<<>>}

\* C22 witness: user 1 has no validated labelled cry but has indexed
\* entries, one of a cry that was validated without a label; an unfiltered
\* search returns them, while user 2 has a labelled entry in the index.
C22_Witness ==
    /\ LabelledValidated(1) = 0
    /\ \E i \in DOMAIN index :
          /\ index[i].user_id = 1
          /\ cries[i].validation_status = TRUE
    /\ \E i \in DOMAIN index :
          /\ index[i].user_id = 1
          /\ cries[i].validation_status = FALSE
    /\ \E q \in QueryVectors :
          \E h \in QueryResults(index, 1, q, NUM_SIMILAR_CRIES, FALSE) :
             Len(h) >= 2
    /\ \E i \in DOMAIN index : index[i].user_id = 2 /\ index[i].has_reason = 1

\* C23: every index entry carries as user_id the user who owns the cry (and
\* so the raw embedding record) with the entry's id.
C23_EntryOwnerIsCryOwner ==
    \A i \in DOMAIN index :
       /\ index[i].cry_id = i
       /\ i \in CryIds
       /\ i \in DOMAIN raw
       /\ index[i].user_id = cries[i].user_id

\* C23 witness: both users have entries in the index and user 1's were
\* re-inserted by a recompute.
C23_Witness ==
    /\ \E i \in DOMAIN index : index[i].user_id = 1
    /\ \E i \in DOMAIN index : index[i].user_id = 2
    /\ \E a \in 1..Len(calls) :
          /\ calls[a].user_id = 1
          /\ \/ calls[a].fn = "recompute_user_stats"
             \/ /\ calls[a].fn = "process_and_store_embedding"
                /\ calls[a].recomputed
          /\ \E b \in 1..(a - 1) :
                calls[b].user_id = 2

\* C24 (as claimed): standardizing a vector with mean all zeros and std all
\* ones returns the vector itself, so as long as a user's statistics are the
\* initial ones (no recompute yet) every index entry of the user equals the
\* raw vector of its cry.
C24_IdentityBeforeRecompute ==
    \A u \in Users :
       u \in DOMAIN stats /\ stats[u] = IdentityRow =>
          \A i \in DOMAIN index :
             index[i].user_id = u =>
                /\ standardize_embedding(JsonLoads(raw[i]), ZeroMean, UnitStd)
                      = JsonLoads(raw[i])
                /\ index[i].embedding = JsonLoads(raw[i])

\* the last direct call is a recompute of user u that persisted statistics
JustRecomputed(u) ==
    /\ calls # <<>>
    /\ calls[Len(calls)].user_id = u
    /\ \/ /\ calls[Len(calls)].fn = "recompute_user_stats"
          /\ calls[Len(calls)].raw_embeddings >= 1
          /\ u \in DOMAIN stats
       \/ /\ calls[Len(calls)].fn = "process_and_store_embedding"
          /\ calls[Len(calls)].recomputed

\* the raw vectors of user u
RawVectorsOf(u) ==
    [i \in 1..Len(RawRecordsOf(u)) |-> JsonLoads(raw[RawRecordsOf(u)[i]])]

\* C25: when a recompute of a user with n >= 1 raw vectors has persisted,
\* the stored mean is the per-dimension average of those n vectors, the
\* stored std their population standard deviation (both up to the rounding
\* of the last digit), and the n vectors standardized with the stored
\* statistics have a per-dimension mean within EPSILON of zero.
C25_StatsOfRawVectors ==
    \A u \in Users :
       JustRecomputed(u) =>
          \A vs \in {RawVectorsOf(u)},
             m \in {JsonLoads(stats[u].mean_json)},
             s \in {JsonLoads(stats[u].std_json)} :
             /\ Len(vs) >= 1
             /\ \A d \in Dims :
                   \A var \in {SumSeq([i \in 1..Len(vs) |->
                                 (vs[i][d] - m[d]) * (vs[i][d] - m[d])])} :
                      /\ Abs(Len(vs) * m[d]
                               - SumSeq([i \in 1..Len(vs) |-> vs[i][d]]))
                            < Len(vs)
                      /\ Len(vs) * s[d] * s[d] <= var
                      /\ var < Len(vs) * (s[d] + 1) * (s[d] + 1)
                      /\ Abs(SumSeq([i \in 1..Len(vs) |->
                               standardize_embedding(vs[i], m, s)[d]]))
                            <= Len(vs) * EPSILON

\* C25 witness: a recompute of user 1 has just persisted statistics computed
\* from three raw vectors that are not all equal.
C25_Witness ==
    /\ JustRecomputed(1)
    /\ Len(RawVectorsOf(1)) = 3
    /\ \E d \in Dims : JsonLoads(stats[1].std_json)[d] > 0

\* C26: when the loop of a recompute run ends, the run has not raised, it
\* has handled every raw embedding record of the user, and every record
\* other than those whose delete_embedding or add_embedding failed has an
\* index entry holding its vector standardized with the new statistics.
C26_FailureIsolated ==
    [][\A c \in CryIds :
          tasks[c].pc \in {"rc_delete", "rc_add"} /\ tasks'[c].pc = "gate" =>
             /\ tasks'[c].raised = NULL
             /\ tasks'[c].rc_done = Len(RawRecordsOf(Owner(c)))
             /\ \A id \in CriesOf(Owner(c)) \cap DOMAIN raw :
                   id \notin tasks'[c].rc_del_failed
                            \cup tasks'[c].rc_add_failed =>
                      /\ id \in DOMAIN index'
                      /\ index'[id].user_id = Owner(c)
                      /\ index'[id].embedding =
                            Restandardized(id, tasks'[c].rc_mean,
                                           tasks'[c].rc_std)]_vars

\* C26 witness: a recompute run has ended after an index call failed for a
\* record that was not the last one, and a later record was re-inserted with
\* the new statistics.
C26_Witness ==
    \E c \in CryIds :
       /\ tasks[c].pc = "gate"
       /\ tasks[c].recomputed
       /\ \E x \in tasks[c].rc_del_failed \cup tasks[c].rc_add_failed :
             \E y \in DOMAIN index :
                /\ y > x
                /\ index[y].embedding =
                      Restandardized(y, tasks[c].rc_mean, tasks[c].rc_std)
                /\ x \in DOMAIN index =>
                      index[x].embedding # Restandardized(x, tasks[c].rc_mean,
                                                          tasks[c].rc_std)

C28_SuccessIsNormal ==
    \A c \in CryIds :
       Returning(c) /\ Result(c).status = "success" =>
          /\ Result(c).confidence = "normal"
          /\ tasks[c].validated_count >= NUM_CRIES_FOR_PREDICTIONS
          /\ tasks[c].query # <<>>
          /\ tasks[c].openai_called

\* C28 witness: a predict is returning success.
C28_Witness ==
    \E c \in CryIds :
       /\ Returning(c)
       /\ Result(c).status = "success"
       /\ Result(c).confidence = "normal"

\* C29 (as claimed): whenever no recompute is running, the has_reason flag
\* of an index entry is 1 exactly when its cry carries a label, so that a
\* cry labelled after it was indexed is returned by filter_validated
\* searches without waiting for the next recompute of its user.
C29_FlagFollowsLabel ==
    (\A c \in CryIds : ~InRecompute(c)) =>
       \A i \in DOMAIN index :
          /\ index[i].has_reason = 1 <=> cries[i].reason # NULL
          /\ cries[i].reason # NULL /\ cries[i].validation_status =>
                \E q \in QueryVectors :
                   \E h \in QueryResults(index, cries[i].user_id, q,
                                         NUM_SIMILAR_CRIES, TRUE) :
                      h # <<>>

\* C30 (as claimed): when a recompute has persisted a user's statistics, the
\* stored cry_count is the number of raw vectors the mean and std were
\* computed from, also when some cries of the user have no raw embedding.
C30_CountIsVectorCount ==
    \A u \in Users :
       JustRecomputed(u) => stats[u].cry_count = Len(RawVectorsOf(u))
====
